---- MODULE Spec2Model ----
(***************************************************************************)
(* Gold regime predictor: the GoldRegimeModel class (src/src/model.py),    *)
(* the Streamlit run block that drives it (src/app.py) and the two data    *)
(* collaborators (src/src/data.py, src/src/fred_data.py).                  *)
(*                                                                         *)
(* Numbers: mean returns and variances are floats in the program; the      *)
(* model draws them from small integer ranges, which keeps their order     *)
(* and their equalities, the only things the labelling code reads.         *)
(*                                                                         *)
(* The estimator (statsmodels' MarkovRegression) is an external library:   *)
(* its constructor and its fit() either raise or return, and what they     *)
(* return is chosen by the environment.                                    *)
(***************************************************************************)
EXTENDS Integers, Sequences, FiniteSets, TLC

VARIABLES
    self,           \* the GoldRegimeModel object: None, or Some(object)
    stats_df,       \* the caller's statistics table: None, or Some(table)
    regime_labels,  \* the caller's label map: None, or Some(map)
    perm,           \* a permutation of the regime indices (relabelling)
    relabelled,     \* the label map of the permuted table: None, or Some(map)
    tie,            \* the order this build's sort leaves tied rows in
    fits,           \* fit calls on the object: made, returned, how the last ended
    last,           \* the last call made on the object and how it ended
    config,         \* the sidebar's regime count; the prices its ticker has
    run,            \* the analysis run in progress
    finished,       \* the analysis runs that ended
    lib             \* what the estimator answered for the ticker's returns

appVars == <<config, run, finished, lib>>

vars == <<self, stats_df, regime_labels, perm, relabelled, tie, fits, last,
          config, run, finished, lib>>

(***************************************************************************)
(* Bounds of the model.                                                    *)
(***************************************************************************)
MaxK == 4       \* regime counts k range over 1..MaxK where tables are drawn
MaxMean == 1    \* mean returns range over -1..MaxMean
MaxVar == 2     \* variances range over 1..MaxVar
NegK == 1       \* constructor arguments range over -NegK..MaxSliderK
MaxFits == 2    \* fit calls made on one object
MaxFitMean == 1 \* an estimate's const[i] ranges over 0..MaxFitMean
MaxLenSteps == 2 \* return series have 5, 10, .., 5 * MaxLenSteps points
MaxRuns == 2    \* analysis runs of one session

\* The slider of the regime count: min_value=2, max_value=3.
MinSliderK == 2
MaxSliderK == 3

None == <<>>
Some(v) == <<v>>
Get(o) == o[1]

Means == (0 - 1)..MaxMean
Variances == 1..MaxVar

(***************************************************************************)
(* Python values.                                                          *)
(***************************************************************************)
\* f'Regime {i}'
RegimeName(i) == "Regime " \o ToString(i)

\* The three label strings of interpret_regimes: each is the word followed
\* by an emoji (a bull, a crab, a bear), written here between angle brackets.
Bullish == "Bullish <bull>"
Consolidating == "Consolidating <crab>"
Bearish == "Bearish <bear>"

\* The two label strings the specification gives for k = 2; no string of
\* the source spells them as labels.
HighVolatility == "High Volatility"
LowVolatility == "Low Volatility"

SemanticLabels == {Bullish, Consolidating, Bearish, HighVolatility, LowVolatility}

\* sigma2 ** 0.5, kept symbolic: nothing in the program reads it back.
Sqrt(v) == <<"sqrt", v>>

\* One column of the statistics DataFrame: its name and its three rows.
StatsColumn(i, mean, variance) ==
    [name |-> RegimeName(i), mean |-> mean, variance |-> variance,
     vol |-> Sqrt(variance)]

\* params of a fitted model: const[i], sigma2[i] for i in 0..k-1.
ParamTables(k, ms, vs) ==
    [0..(k - 1) -> [const : ms, sigma2 : vs]]

\* get_regime_stats' loop: one column per i in range(k_regimes), in order.
\* params.get(name, 0): a parameter the fit does not have reads as 0.
ParamGet(params, i, field) ==
    IF i \in DOMAIN params THEN params[i][field] ELSE 0

StatsOf(k, params) ==
    [j \in 1..(IF k > 0 THEN k ELSE 0) |->
        StatsColumn(j - 1, ParamGet(params, j - 1, "const"),
                    ParamGet(params, j - 1, "sigma2"))]

Perms(S) == {f \in [S -> S] : \A y \in S : \E x \in S : f[x] = y}

(***************************************************************************)
(* DataFrame.sort_values('Mean Return', ascending=False) on the transposed *)
(* table: the row positions in descending order of mean.  The default sort *)
(* kind is quicksort, which is not stable: rows of equal mean come out in  *)
(* an order the build decides, here the rank `order` gives the positions.  *)
(***************************************************************************)
SortedDesc(df, order) ==
    CHOOSE p \in Perms(1..Len(df)) :
        \A i, j \in 1..Len(df) :
            i < j => \/ df[p[i]].mean > df[p[j]].mean
                     \/ /\ df[p[i]].mean = df[p[j]].mean
                        /\ order[p[i]] < order[p[j]]

\* A faulty variant of sort_values: ascending instead of descending.
SortedAsc(df, order) ==
    CHOOSE p \in Perms(1..Len(df)) :
        \A i, j \in 1..Len(df) :
            i < j => \/ df[p[i]].mean < df[p[j]].mean
                     \/ /\ df[p[i]].mean = df[p[j]].mean
                        /\ order[p[i]] < order[p[j]]

sort_values(df, order) == SortedDesc(df, order)

\* A Python dict literal {k1: v1, k2: v2, k3: v3}: a later key overwrites.
DictOf(pairs) ==
    [n \in {pairs[i][1] : i \in 1..Len(pairs)} |->
        LET i == CHOOSE i \in 1..Len(pairs) :
                    /\ pairs[i][1] = n
                    /\ \A j \in (i + 1)..Len(pairs) : pairs[j][1] # n
        IN pairs[i][2]]

\* The k != 3 branch: every regime is named after itself.
NumericLabels(k) ==
    [n \in {RegimeName(i) : i \in 0..(k - 1)} |-> n]

\* The k = 3 branch: first row Bullish, last row Bearish, row 1 Consolidating.
MeanLabels(df, order) ==
    LET df_sorted == sort_values(df, order)
        bullish_regime == df[df_sorted[1]].name
        bearish_regime == df[df_sorted[Len(df)]].name
        consolidating_regime == df[df_sorted[2]].name
    IN DictOf(<< <<bullish_regime, Bullish>>,
                 <<consolidating_regime, Consolidating>>,
                 <<bearish_regime, Bearish>> >>)

\* What the specification asks of k = 2 and the source does not do.
VarianceLabels(df) ==
    LET hi == CHOOSE i \in 1..Len(df) : \A j \in 1..Len(df) :
                    df[i].variance >= df[j].variance
    IN [n \in {df[i].name : i \in 1..Len(df)} |->
            IF n = df[hi].name THEN HighVolatility ELSE LowVolatility]

\* A faulty variant: the early return taken only below three regimes.
InterpretGuardBelowThree(k, df, order) ==
    IF k < 3 THEN NumericLabels(k)
    ELSE MeanLabels(df, IF k = 3 THEN order ELSE [i \in 1..Len(df) |-> i])

\* A variant that labels k = 2 by variance.
InterpretWithVariance(k, df, order) ==
    IF k = 2 THEN VarianceLabels(df)
    ELSE IF k # 3 THEN NumericLabels(k) ELSE MeanLabels(df, order)

\* GoldRegimeModel.interpret_regimes(stats_df), self.k_regimes = k.
interpret_regimes(k, df, order) ==
    IF k # 3 THEN NumericLabels(k) ELSE MeanLabels(df, order)

(***************************************************************************)
(* The object.                                                             *)
(***************************************************************************)
\* GoldRegimeModel.__init__
NewModel(k) == [k_regimes |-> k, model |-> None, results |-> None]

NoCall == [op |-> "none", arg |-> None, ret |-> None, err |-> "none"]
NoFits == [made |-> 0, returned |-> 0, last |-> "none"]

\* raise ValueError("Model not fitted yet.")
NotFitted == "ValueError: Model not fitted yet."
\* Whatever the estimator raises; fit re-raises it unchanged (raise e).
EstimatorError == "EstimatorError"
\* The two validation errors of the specification; no class of the source
\* carries either name.
InvalidRegimeCountError == "InvalidRegimeCountError"
InsufficientDataError == "InsufficientDataError"

\* A variant: a constructor that rejects k < 1.
ConstructValidating(k) ==
    IF k < 1 THEN [self |-> None, err |-> InvalidRegimeCountError]
    ELSE [self |-> Some(NewModel(k)), err |-> "none"]

\* GoldRegimeModel(k_regimes=k): __init__ stores k and checks nothing.
construct(k) == [self |-> Some(NewModel(k)), err |-> "none"]

\* MarkovRegression(returns, k_regimes=k, trend='c', switching_variance=True),
\* built by fit call n on a series of T points.
MarkovRegression(n, T, k) == [call |-> n, nobs |-> T, k_regimes |-> k]

\* What the estimator does in one fit call: its constructor raises, its
\* fit() raises, or fit() returns results with these params.
EstPair(m) == [const |-> m, sigma2 |-> m + 1]
\* A sample of the estimates: every regime alike, or the regimes' means
\* following one another round 0..MaxFitMean.
EstParams(k) ==
    {[i \in 0..(k - 1) |-> EstPair(m)] : m \in 0..MaxFitMean}
    \cup {[i \in 0..(k - 1) |-> EstPair((i + m) % (MaxFitMean + 1))] :
            m \in 0..MaxFitMean}
FitOutcomes(k) ==
    {[kind |-> "ctor_raises", params |-> <<>>],
     [kind |-> "fit_raises", params |-> <<>>]}
    \cup {[kind |-> "returns", params |-> p] : p \in EstParams(k)}

\* The results object of fit call n.
Results(n, T, params) == [call |-> n, nobs |-> T, params |-> params]
\* results.summary() and results.smoothed_marginal_probabilities: values of
\* the fit call that made the results.
Summary(res) == [summary_of |-> res.call]
SmoothedProbs(res) ==
    [probs_of |-> res.call, nobs |-> res.nobs, given |-> res.params]

\* A variant: a fit that checks the series length first (T < 10 * k).
FitWithLengthCheck(obj, n, T, out) ==
    IF T < 10 * obj.k_regimes
    THEN [self |-> obj, ret |-> None, err |-> InsufficientDataError]
    ELSE IF out.kind = "ctor_raises"
    THEN [self |-> obj, ret |-> None, err |-> EstimatorError]
    ELSE LET built ==
                [obj EXCEPT !.model =
                    Some(MarkovRegression(n, T, obj.k_regimes))]
         IN IF out.kind = "fit_raises"
            THEN [self |-> built, ret |-> None, err |-> EstimatorError]
            ELSE LET res == Results(n, T, out.params)
                 IN [self |-> [built EXCEPT !.results = Some(res)],
                     ret |-> Some(Summary(res)), err |-> "none"]

\* GoldRegimeModel.fit(returns): fit call n, returns of T points.
\*   self.model = MarkovRegression(...)        (outside the try)
\*   try: self.results = self.model.fit()
\*   except Exception as e: print(...); raise e
\*   return self.results.summary()
fit(obj, n, T, out) ==
    IF out.kind = "ctor_raises"
    THEN [self |-> obj, ret |-> None, err |-> EstimatorError]
    ELSE LET built ==
                [obj EXCEPT !.model =
                    Some(MarkovRegression(n, T, obj.k_regimes))]
         IN IF out.kind = "fit_raises"
            THEN [self |-> built, ret |-> None, err |-> EstimatorError]
            ELSE LET res == Results(n, T, out.params)
                 IN [self |-> [built EXCEPT !.results = Some(res)],
                     ret |-> Some(Summary(res)), err |-> "none"]

\* A faulty variant: the guard reads self.model instead of self.results.
PredictProbsChecksModel(obj) ==
    IF obj.model = None THEN [ret |-> None, err |-> NotFitted]
    ELSE IF obj.results = None THEN [ret |-> None, err |-> "none"]
    ELSE [ret |-> Some(SmoothedProbs(Get(obj.results))), err |-> "none"]

\* GoldRegimeModel.predict_probs()
predict_probs(obj) ==
    IF obj.results = None THEN [ret |-> None, err |-> NotFitted]
    ELSE [ret |-> Some(SmoothedProbs(Get(obj.results))), err |-> "none"]

\* GoldRegimeModel.get_regime_stats()
get_regime_stats(obj) ==
    IF obj.results = None THEN [ret |-> None, err |-> NotFitted]
    ELSE [ret |-> Some(StatsOf(obj.k_regimes, Get(obj.results).params)),
          err |-> "none"]

\* The sort's order of tied rows is fixed by the first sort that runs.
TieOrders(df) == IF tie = None THEN Perms(1..Len(df)) ELSE {Get(tie)}

\* Tables of k columns, as get_regime_stats builds them.
StatsTables(k) ==
    {StatsOf(k, p) : p \in ParamTables(k, Means, Variances)}

\* The table whose regime q[i] carries what regime i carried.
Permute(df, q) ==
    [j \in 1..Len(df) |->
        LET i == CHOOSE i \in 1..Len(df) : q[i - 1] = j - 1
        IN StatsColumn(j - 1, df[i].mean, df[i].variance)]

(***************************************************************************)
(* The app: one script run per click of "Run Analysis".                    *)
(***************************************************************************)
\* The series of fetch_fred_data.
FredSeries ==
    {"10Y Yield", "10Y Breakeven Inflation", "US Dollar Index",
     "Yield Curve (10Y-2Y)"}
\* What FRED can answer: no connection, or the series it could serve.
FredAnswers ==
    {[connected |-> FALSE, served |-> {}],
     [connected |-> TRUE, served |-> {}],
     [connected |-> TRUE, served |-> {"10Y Yield"}],
     [connected |-> TRUE, served |-> FredSeries]}

\* fetch_fred_data(api_key, start_date): the frame (its columns) or None,
\* and what it wrote to the page. Every exception is caught inside.
fetch_fred_data(api_key, answer) ==
    IF ~api_key THEN [ret |-> None, shown |-> {}]
    ELSE IF ~answer.connected
    THEN [ret |-> None, shown |-> {"error: FRED"}]
    ELSE IF answer.served = {}
    THEN [ret |-> None, shown |-> {"warning: FRED series"}]
    ELSE [ret |-> Some(answer.served),
          shown |-> IF answer.served # FredSeries
                    THEN {"warning: FRED series"} ELSE {}]

NoRun ==
    [pc |-> "idle", key |-> FALSE, data |-> None, fred |-> "unset",
     macro_data |-> None, fit_args |-> None, probs |-> None, stats |-> None,
     regime_labels |-> None, summary |-> None, shown |-> {},
     failed |-> "none"]

AppIdle ==
    /\ config = [k_regimes |-> MinSliderK, prices |-> 5]
    /\ run = NoRun
    /\ finished = {}
    /\ lib = None

\* A faulty variant: an error handler without its st.stop().
NoStop(r) == r

\* st.stop(): the script run ends here.
st_stop(r) == [r EXCEPT !.pc = "stopped"]

\* A faulty variant: a failed FRED fetch handled like a failed price fetch.
FredFailureStops(r, answer) ==
    LET got == fetch_fred_data(r.key, answer)
    IN IF r.key /\ got.ret = None
       THEN [r EXCEPT !.pc = "stopped", !.fred = "failed",
                      !.shown = @ \cup got.shown, !.failed = "fred"]
       ELSE [r EXCEPT !.pc = "fit",
                      !.fred = IF ~r.key THEN "skipped" ELSE "fetched",
                      !.macro_data = got.ret,
                      !.shown = @ \cup got.shown
                                  \cup (IF got.ret # None
                                        THEN {"success: macro"} ELSE {})]

\* Step 2 of the run: macro_data = None; if fred_api_key: fetch and report.
FredStep(r, answer) ==
    LET got == fetch_fred_data(r.key, answer)
    IN [r EXCEPT !.pc = "fit",
                 !.fred = IF ~r.key THEN "skipped"
                          ELSE IF got.ret = None THEN "failed"
                          ELSE "fetched",
                 !.macro_data = got.ret,
                 !.shown = @ \cup got.shown
                             \cup (IF got.ret # None
                                   THEN {"success: macro"} ELSE {})]

\* Step 3 of the run, the try block: construct, fit, predict_probs,
\* get_regime_stats, interpret_regimes; any exception is reported and the
\* run stopped.
FitStep(r, k, out, order) ==
    LET T == Get(r.data)
        made == construct(k)
        fitted == fit(Get(made.self), 1, T, out)
        probs == predict_probs(fitted.self)
        stats == get_regime_stats(fitted.self)
        called == [r EXCEPT !.fit_args = Some(<<T, k>>), !.pc = "col1"]
    IN IF fitted.err # "none" \/ probs.err # "none" \/ stats.err # "none"
       THEN st_stop([called EXCEPT !.shown = @ \cup {"error: fit"},
                                   !.failed = "fit"])
       ELSE [called EXCEPT
                !.summary = fitted.ret,
                !.probs = probs.ret,
                !.stats = stats.ret,
                !.regime_labels =
                    Some(interpret_regimes(k, Get(stats.ret), order))]

(***************************************************************************)
(* interpret_regimes as a function of its table.                           *)
(***************************************************************************)
InitInterp ==
    /\ \E k \in 1..MaxK :
          /\ self = Some(NewModel(k))
          /\ stats_df \in {Some(t) : t \in StatsTables(k)}
          /\ perm = [i \in 0..(k - 1) |-> i]
    /\ regime_labels = None
    /\ relabelled = None
    /\ tie = None
    /\ fits = NoFits
    /\ last = NoCall
    /\ AppIdle

Interpret ==
    /\ regime_labels = None
    /\ \E order \in (IF Get(self).k_regimes = 3 THEN TieOrders(Get(stats_df))
                     ELSE {tie}) :
          /\ tie' = (IF Get(self).k_regimes = 3 THEN Some(order) ELSE tie)
          /\ regime_labels' =
                Some(interpret_regimes(Get(self).k_regimes, Get(stats_df),
                                       order))
    /\ UNCHANGED <<self, stats_df, perm, relabelled, fits, last, appVars>>

NextInterp == Interpret

SpecInterp == InitInterp /\ [][NextInterp]_vars

(***************************************************************************)
(* Relabelling: the same fit with its regimes numbered differently.        *)
(***************************************************************************)
InitRelabel ==
    /\ \E k \in 1..MaxK :
          /\ self = Some(NewModel(k))
          /\ stats_df \in {Some(t) : t \in StatsTables(k)}
          /\ perm \in Perms(0..(k - 1))
    /\ regime_labels = None
    /\ relabelled = None
    /\ tie = None
    /\ fits = NoFits
    /\ last = NoCall
    /\ AppIdle

InterpretRelabelled ==
    /\ relabelled = None
    /\ LET df == Permute(Get(stats_df), perm)
       IN \E order \in (IF Get(self).k_regimes = 3 THEN TieOrders(df)
                        ELSE {tie}) :
             /\ tie' = (IF Get(self).k_regimes = 3 THEN Some(order) ELSE tie)
             /\ relabelled' =
                   Some(interpret_regimes(Get(self).k_regimes, df, order))
    /\ UNCHANGED <<self, stats_df, regime_labels, perm, fits, last, appVars>>

NextRelabel == Interpret \/ InterpretRelabelled

SpecRelabel == InitRelabel /\ [][NextRelabel]_vars

(***************************************************************************)
(* Claims about interpret_regimes.                                         *)
(***************************************************************************)
Labelled == self # None /\ stats_df # None /\ regime_labels # None

DistinctMeans(df) ==
    \A i, j \in 1..Len(df) : i # j => df[i].mean # df[j].mean

\* The label the ordering of the means calls for.
LabelByMean(df, i) ==
    IF \A j \in 1..Len(df) : df[i].mean >= df[j].mean THEN Bullish
    ELSE IF \A j \in 1..Len(df) : df[i].mean <= df[j].mean THEN Bearish
    ELSE Consolidating

\* C1: for k = 3 and three distinct mean returns, the regime of highest
\* mean is labelled Bullish, the one of lowest mean Bearish and the
\* remaining one Consolidating; each regime gets exactly one label and each
\* label is used exactly once.
C1_MeanLabelling ==
    (Labelled /\ Get(self).k_regimes = 3 /\ DistinctMeans(Get(stats_df))) =>
        LET df == Get(stats_df)
            L == Get(regime_labels)
        IN /\ DOMAIN L = {RegimeName(i) : i \in 0..2}
           /\ \A i \in 1..3 : L[df[i].name] = LabelByMean(df, i)
           /\ \A l \in {Bullish, Bearish, Consolidating} :
                 Cardinality({n \in DOMAIN L : L[n] = l}) = 1

\* C1's case: the means [1, -1, 0] of regimes 0, 1, 2 (the specification's
\* [0.8, -0.5, 0.05]) have been labelled.
C1_Witness ==
    /\ Labelled
    /\ Get(self).k_regimes = 3
    /\ [i \in 1..3 |-> Get(stats_df)[i].mean] = <<1, 0 - 1, 0>>
    /\ Get(regime_labels)["Regime 2"] = Consolidating

C10_NoSemanticLabel ==
    (Labelled /\ (Get(self).k_regimes = 1 \/ Get(self).k_regimes >= 4)) =>
        LET L == Get(regime_labels)
            k == Get(self).k_regimes
        IN /\ DOMAIN L = {RegimeName(i) : i \in 0..(k - 1)}
           /\ Cardinality(DOMAIN L) = k
           /\ \A n \in DOMAIN L : L[n] = n /\ L[n] \notin SemanticLabels

\* C10's case: four regimes whose means would order them have been labelled.
C10_Witness ==
    /\ Labelled
    /\ Get(self).k_regimes >= 4
    /\ Get(stats_df)[1].mean > Get(stats_df)[2].mean

\* The semantic label a map gives a regime, if any.
SemanticOf(L, n) ==
    IF n \in DOMAIN L /\ L[n] \in SemanticLabels THEN L[n] ELSE "none"

\* The semantic labels of the regimes that carry the pair (m, v).
LabelsOfPair(df, L, m, v) ==
    {SemanticOf(L, df[i].name) :
        i \in {i \in 1..Len(df) : df[i].mean = m /\ df[i].variance = v}}

\* C2: relabelling invariance. For every table (ties in the means
\* included) and every permutation of the regime indices, the regimes that
\* carry a given (mean, variance) pair get the same semantic label before
\* and after the permutation.
C2_RelabelInvariant ==
    (Labelled /\ relabelled # None) =>
        LET df == Get(stats_df)
            pf == Permute(df, perm)
        IN \A m \in Means, v \in Variances :
              LabelsOfPair(df, Get(regime_labels), m, v)
                 = LabelsOfPair(pf, Get(relabelled), m, v)

(***************************************************************************)
(* One GoldRegimeModel object and the calls a caller makes on it.          *)
(***************************************************************************)
KArgs == (0 - NegK)..MaxSliderK
SeriesLengths == {5 * j : j \in 1..MaxLenSteps}

InitModel ==
    /\ self = None
    /\ stats_df = None
    /\ regime_labels = None
    /\ perm = <<>>
    /\ relabelled = None
    /\ tie = None
    /\ fits = NoFits
    /\ last = NoCall
    /\ AppIdle

Construct ==
    /\ self = None
    /\ \E k \in KArgs :
          LET r == construct(k)
          IN /\ self' = r.self
             /\ last' = [op |-> "construct", arg |-> Some(k), ret |-> None,
                         err |-> r.err]
    /\ UNCHANGED <<stats_df, regime_labels, perm, relabelled, tie, fits, appVars>>

Fit ==
    /\ self # None
    /\ fits.made < MaxFits
    /\ \E T \in SeriesLengths, out \in FitOutcomes(Get(self).k_regimes) :
          LET r == fit(Get(self), fits.made + 1, T, out)
          IN /\ self' = Some(r.self)
             /\ fits' = [made |-> fits.made + 1,
                         returned |-> fits.returned
                                        + (IF r.err = "none" THEN 1 ELSE 0),
                         last |-> IF r.err = "none" THEN "returned"
                                  ELSE "raised"]
             /\ last' = [op |-> "fit", arg |-> Some(T), ret |-> r.ret,
                         err |-> r.err]
    /\ UNCHANGED <<stats_df, regime_labels, perm, relabelled, tie, appVars>>

PredictProbs ==
    /\ self # None
    /\ LET r == predict_probs(Get(self))
       IN last' = [op |-> "predict_probs", arg |-> None, ret |-> r.ret,
                   err |-> r.err]
    /\ UNCHANGED <<self, stats_df, regime_labels, perm, relabelled, tie, fits, appVars>>

GetRegimeStats ==
    /\ self # None
    /\ LET r == get_regime_stats(Get(self))
       IN last' = [op |-> "get_regime_stats", arg |-> None, ret |-> r.ret,
                   err |-> r.err]
    /\ UNCHANGED <<self, stats_df, regime_labels, perm, relabelled, tie, fits, appVars>>

\* interpret_regimes on the table of the object's results or, while it
\* has none, on a table of zeros.
InterpretRegimes ==
    /\ self # None
    /\ LET k == Get(self).k_regimes
           had == get_regime_stats(Get(self))
           df == IF had.err = "none" THEN Get(had.ret) ELSE StatsOf(k, <<>>)
       IN \E order \in (IF k = 3 THEN TieOrders(df) ELSE {tie}) :
             /\ tie' = (IF k = 3 THEN Some(order) ELSE tie)
             /\ last' = [op |-> "interpret_regimes", arg |-> Some(df),
                         ret |-> Some(interpret_regimes(k, df, order)),
                         err |-> "none"]
    /\ UNCHANGED <<self, stats_df, regime_labels, perm, relabelled, fits, appVars>>

NextModel ==
    \/ Construct
    \/ Fit
    \/ PredictProbs
    \/ GetRegimeStats
    \/ InterpretRegimes

SpecModel == InitModel /\ [][NextModel]_vars

(***************************************************************************)
(* Claims about the object's life.                                         *)
(***************************************************************************)
Readers == {"predict_probs", "get_regime_stats"}

\* C4 as the specification states it: predict_probs, get_regime_stats and
\* interpret_regimes never end in a "not fitted yet" error, whatever calls
\* came before.
C4_Total ==
    last.op \in Readers \cup {"interpret_regimes"} => last.err # NotFitted

\* C4 amended: predict_probs and get_regime_stats end in the "Model not
\* fitted yet" ValueError exactly when self.results is None, which is
\* exactly when no fit call on the object has returned yet; otherwise they
\* return a value. interpret_regimes never ends in that error.
C4_GatedByResults ==
    /\ last.op \in Readers =>
          /\ (last.err = NotFitted) = (Get(self).results = None)
          /\ (Get(self).results = None) = (fits.returned = 0)
          /\ last.err \in {NotFitted, "none"}
          /\ (last.err = "none") = (last.ret # None)
    /\ last.op = "interpret_regimes" => last.err = "none" /\ last.ret # None

\* C4's case: a fit call raised inside the estimator's fit(), so the object
\* has a model and no results, and predict_probs ended in the error.
C4_Witness ==
    /\ last.op = "predict_probs"
    /\ last.err = NotFitted
    /\ Get(self).model # None
    /\ fits.made > 0

\* C5: the results predict_probs and get_regime_stats expose are those of
\* the most recent fit call, none when that call failed; the stored model
\* and the stored results belong to the same fit call.
C5_MostRecentFit ==
    (self # None /\ fits.made > 0) =>
        /\ last.op \in Readers =>
              IF fits.last = "returned"
              THEN /\ last.err = "none"
                   /\ Get(Get(self).results).call = fits.made
              ELSE last.err = NotFitted
        /\ Get(self).results # None =>
              /\ Get(self).model # None
              /\ Get(Get(self).model).call = Get(Get(self).results).call

\* C6 as the specification states it: a k < 1 is rejected with
\* InvalidRegimeCountError at construction, and no object with k < 1 exists.
C6_RejectedAtConstruction ==
    /\ (last.op = "construct" /\ Get(last.arg) < 1) =>
          last.err = InvalidRegimeCountError
    /\ self # None => Get(self).k_regimes >= 1

\* C6 amended: construction validates nothing. For every k, k = 0 and
\* k = -1 included, it returns an object that stores k unchanged, with no
\* model and no results; InvalidRegimeCountError is raised neither at
\* construction nor by any later call.
C6_ConstructionAcceptsAnyK ==
    /\ last.op = "construct" =>
          /\ last.err = "none"
          /\ self = Some(NewModel(Get(last.arg)))
    /\ last.op # "none" =>
          /\ self # None
          /\ Get(self).k_regimes \in KArgs
    /\ last.err # InvalidRegimeCountError

\* C6's case: an object with k = 0 was constructed and a fit call was then
\* made on it.
C6_Witness ==
    /\ self # None
    /\ Get(self).k_regimes = 0
    /\ last.op = "fit"

\* The last call was a fit on a series shorter than 10 * k.
ShortFit == last.op = "fit" /\ Get(last.arg) < 10 * Get(self).k_regimes

\* The estimator object this fit call built, if self.model is it.
BuiltNow ==
    /\ Get(self).model # None
    /\ Get(Get(self).model).call = fits.made

StoredNow ==
    /\ Get(self).results # None
    /\ Get(Get(self).results).call = fits.made

\* C7 as the specification states it: fit on a series of T < 10 * k points
\* ends with InsufficientDataError before any estimation work: the
\* estimator is neither constructed nor run and no result is stored.
C7_InsufficientData ==
    ShortFit =>
        /\ last.err = InsufficientDataError
        /\ ~BuiltNow
        /\ ~StoredNow

\* C7 amended: fit checks no length. On a series of T < 10 * k points it
\* never raises InsufficientDataError: it constructs the estimator on that
\* series and, unless the constructor raises, stores it in self.model and
\* runs it; the call raises only what the estimator raises, and then no
\* result of this call is stored; when the estimator returns, its results
\* are stored.
C7_NoLengthCheck ==
    ShortFit =>
        /\ last.err \in {"none", EstimatorError}
        /\ BuiltNow => Get(Get(self).model).nobs = Get(last.arg)
        /\ last.err = "none" => BuiltNow /\ StoredNow
        /\ last.err = EstimatorError => ~StoredNow

\* C7's case: k = 2 and a series of 5 points; the estimator was built on
\* it and run.
C7_Witness ==
    /\ ShortFit
    /\ Get(self).k_regimes = 2
    /\ Get(last.arg) = 5
    /\ BuiltNow

(***************************************************************************)
(* Analysis runs, one after another.                                       *)
(***************************************************************************)
DataSets == SeriesLengths

InitApp ==
    /\ self = None
    /\ stats_df = None
    /\ regime_labels = None
    /\ perm = <<>>
    /\ relabelled = None
    /\ tie = None
    /\ fits = NoFits
    /\ last = NoCall
    /\ config \in [k_regimes : MinSliderK..MaxSliderK, prices : DataSets]
    /\ run = NoRun
    /\ finished = {}
    /\ lib = None

objVars == <<self, stats_df, regime_labels, perm, relabelled, fits, last>>

\* The button is clicked; the FRED key field is empty or filled.
StartRun ==
    /\ run.pc = "idle"
    /\ Cardinality(finished) < MaxRuns
    /\ \E key \in BOOLEAN : run' = [NoRun EXCEPT !.pc = "fetch", !.key = key]
    /\ UNCHANGED <<objVars, tie, config, finished, lib>>

\* Step 1: fetch_gold_data raises, or returns the bars of the ticker with
\* their returns.
FetchData ==
    /\ run.pc = "fetch"
    /\ \/ run' = st_stop([run EXCEPT !.pc = "fred",
                                     !.shown = @ \cup {"error: fetch"},
                                     !.failed = "fetch"])
       \/ run' = [run EXCEPT !.pc = "fred", !.data = Some(config.prices),
                             !.shown = @ \cup {"success: loaded"}]
    /\ UNCHANGED <<objVars, tie, config, finished, lib>>

FetchFred ==
    /\ run.pc = "fred"
    /\ \E answer \in FredAnswers : run' = FredStep(run, answer)
    /\ UNCHANGED <<objVars, tie, config, finished, lib>>

\* The estimator is deterministic: given the series and the k it was given
\* before, it answers as it did before.
LibAnswers(k) == IF lib = None THEN FitOutcomes(k) ELSE {Get(lib)}

FitModel ==
    /\ run.pc = "fit"
    /\ LET k == config.k_regimes
           T == Get(run.data)
       IN \E out \in LibAnswers(k) :
             LET sorts == k = 3 /\ out.kind = "returns"
             IN \E order \in (IF sorts
                              THEN TieOrders(StatsOf(k, out.params))
                              ELSE {tie}) :
                   /\ run' = FitStep(run, k, out, order)
                   /\ tie' = (IF sorts THEN Some(order) ELSE tie)
                   /\ lib' = Some(out)
    /\ UNCHANGED <<objVars, config, finished>>

\* Column 1: statistics table, regime legend, current state, macro context.
ShowStatistics ==
    /\ run.pc = "col1"
    /\ run' = [run EXCEPT
                  !.pc = "col2",
                  !.shown = @ \cup {"stats", "labels", "metrics"}
                              \cup (IF run.macro_data # None
                                    THEN {"macro context"} ELSE {})]
    /\ UNCHANGED <<objVars, tie, config, finished, lib>>

\* Column 2: the chart (a plot error is reported and passed over), then the
\* macro chart, which needs both of its columns.
ShowVisuals ==
    /\ run.pc = "col2"
    /\ \E plotted \in BOOLEAN :
          LET r == [run EXCEPT !.shown = @ \cup {IF plotted THEN "chart"
                                                 ELSE "error: plot"}]
          IN run' =
               IF r.macro_data = None
               THEN [r EXCEPT !.pc = "summary"]
               ELSE IF {"10Y Yield", "US Dollar Index"}
                          \subseteq Get(r.macro_data)
               THEN [r EXCEPT !.pc = "summary",
                              !.shown = @ \cup {"macro chart"}]
               ELSE [r EXCEPT !.pc = "raised", !.failed = "display"]
    /\ UNCHANGED <<objVars, tie, config, finished, lib>>

ShowSummary ==
    /\ run.pc = "summary"
    /\ run' = [run EXCEPT !.pc = "done", !.shown = @ \cup {"summary"}]
    /\ UNCHANGED <<objVars, tie, config, finished, lib>>

\* What a run fetched, passed to the model and got back.
Outcome(r) ==
    [data |-> r.data, fred |-> r.fred, fit_args |-> r.fit_args,
     probs |-> r.probs, stats |-> r.stats,
     regime_labels |-> r.regime_labels, summary |-> r.summary,
     failed |-> r.failed]

\* The script run is over.
EndRun ==
    /\ run.pc \in {"done", "stopped", "raised"}
    /\ finished' = finished \cup {Outcome(run)}
    /\ run' = NoRun
    /\ UNCHANGED <<objVars, tie, config, lib>>

NextApp ==
    \/ StartRun
    \/ FetchData
    \/ FetchFred
    \/ FitModel
    \/ ShowStatistics
    \/ ShowVisuals
    \/ ShowSummary
    \/ EndRun

SpecApp == InitApp /\ [][NextApp]_vars

(***************************************************************************)
(* Claims about the analysis run.                                          *)
(***************************************************************************)
InRun == run.pc # "idle"

Outcomes == finished \cup (IF InRun THEN {Outcome(run)} ELSE {})

ResultOutputs ==
    {"stats", "labels", "metrics", "macro context", "chart", "error: plot",
     "macro chart", "summary"}

\* C8: a failed fetch, or a raise of fit, predict_probs, get_regime_stats
\* or interpret_regimes, is reported and halts the run: no later step is
\* reached and the exception does not leave the run.
C8_ErrorHaltsRun ==
    /\ run.failed = "fetch" =>
          /\ run.pc = "stopped"
          /\ "error: fetch" \in run.shown
          /\ run.fred = "unset" /\ run.fit_args = None
          /\ run.shown \cap ResultOutputs = {}
    /\ run.failed = "fit" =>
          /\ run.pc = "stopped"
          /\ "error: fit" \in run.shown
          /\ run.stats = None /\ run.regime_labels = None
          /\ run.shown \cap ResultOutputs = {}
    /\ run.pc = "raised" => run.failed = "display"
    /\ (run.fit_args # None /\ run.summary = None) => run.failed = "fit"
    /\ \A r \in finished :
          /\ r.failed = "fetch" => r.fit_args = None
          /\ r.failed = "fit" => r.stats = None /\ r.regime_labels = None

\* C8's case: the fit of the run raised and the run is stopped.
C8_Witness ==
    /\ run.failed = "fit"
    /\ run.fit_args # None
    /\ run.pc = "stopped"

\* C9: two runs with the same settings and the same fetched prices but
\* different FRED outcomes pass the same series and the same k to the model,
\* both reach the fit, and get the same probabilities, statistics and
\* labels.
C9_FredIndependent ==
    /\ InRun =>
          /\ run.pc \in {"fit", "col1", "col2", "summary", "done", "raised"}
                => run.data # None /\ run.fred # "unset"
          /\ (run.data # None /\ run.pc \notin {"fred", "fit"}) =>
                run.fit_args = Some(<<Get(run.data), config.k_regimes>>)
    /\ \A r \in finished :
          r.data # None =>
             r.fit_args = Some(<<Get(r.data), config.k_regimes>>)
    /\ \A r1, r2 \in Outcomes :
          (/\ r1.data # None /\ r1.data = r2.data
           /\ r1.fit_args # None /\ r2.fit_args # None) =>
              /\ r1.fit_args = r2.fit_args
              /\ r1.probs = r2.probs
              /\ r1.stats = r2.stats
              /\ r1.regime_labels = r2.regime_labels
              /\ r1.summary = r2.summary

\* C9's case: two runs on the same prices, one without a FRED key and one
\* whose FRED fetch failed, both fitted three regimes of equal mean.
C9_Witness ==
    \E r1, r2 \in finished :
        /\ r1.data # None /\ r1.data = r2.data
        /\ r1.fred = "skipped" /\ r2.fred = "failed"
        /\ r1.regime_labels # None /\ r2.regime_labels # None
        /\ config.k_regimes = 3
        /\ Get(r1.stats)[1].mean = Get(r1.stats)[2].mean

====
